---- MODULE Spec2Model ----
(***************************************************************************)
(* Verification model of the rover base driver (rover_driver/src/base.cpp) *)
(*                                                                         *)
(* Velocities are fixed-point numbers: the integer n stands for the real   *)
(* number n / Scale.  On this grid every intermediate value of set_motors  *)
(* is an exact rational and no rounding tie is decided differently by      *)
(* IEEE doubles, so the integer arithmetic below computes what the C++     *)
(* code computes.                                                          *)
(***************************************************************************)
EXTENDS Integers, Sequences, FiniteSets, TLC

\* ------------------------------------------------------------------ bounds
Scale == 4
MaxCmds == 2
MaxTicks == 2
MaxDevFrames == 1
MaxPayload == 2
MaxDen == 4
MaxStream == 2

\* velocity commands (vx, vy, vr) the bus delivers to the driver: full forward
\* (in range), one component below -1 with a fractional one, and all three
\* components out of range (saturating)
Cmds ==
    { <<Scale, 0, 0>>,
      <<-((3 * Scale) \div 2), Scale \div 2, 0>>,
      <<2 * Scale, -2 * Scale, 2 * Scale>> }
\* values offered for the Twist fields the callback forces to zero
OtherVals == {0, 4}
\* velocity components offered to set_motors on its own (quarter steps)
MixVals == {-6, -4, -3, -2, -1, 0, 1, 2, 3, 4, 6}
\* payload bytes offered to the codec: 0, 1, '$', 'M', 0xFF
ByteVals == {0, 1, 36, 77, 255}

\* ------------------------------------------------------- program constants
DSHOT_NEUTRAL == 1500
max_velocity == 50
comb_limit == 2
ENVELOPE_LO == 1400
ENVELOPE_HI == 1600

\* V with the two rear wheels mirrored on the forward axis
VRearMirrored == << <<1, -1, -1>>, <<1, 1, -1>>, <<-1, 1, 1>>, <<-1, -1, 1>> >>

\* Motor layout, one row per wheel, columns (vx, vy, vr)
V == << <<1, -1, -1>>, <<1, 1, -1>>, <<1, 1, 1>>, <<1, -1, 1>> >>

\* ------------------------------------------------------------ arithmetic
\* abs(v[i]) of line 63: the double overload, the only one for which
\* std::max(amplitude, abs(v[i])) deduces a single type and compiles
Abs(x) == IF x < 0 THEN -x ELSE x

Max2(a, b) == IF a < b THEN b ELSE a

\* util/clamp.h: clamp(v, lo, hi) stores the clamped value back into v
clamp(v, lo, hi) == IF v < lo THEN lo ELSE IF v > hi THEN hi ELSE v

\* std::round of the positive real num/den (den > 0): halves round up
RoundPos(num, den) == (2 * num + den) \div (2 * den)

\* conversion of an integral double to uint16_t
ToU16(n) == n % 65536

\* ------------------------------------------------------------ set_motors
\* ClampCmd without the clamps
ClampCmdNone(vx, vy, vr) == <<vx, vy, vr>>

\* the three references after the clamps of lines 56-58
ClampCmd(vx, vy, vr) ==
    << clamp(vx, -1 * Scale, 1 * Scale),
       clamp(vy, -1 * Scale, 1 * Scale),
       clamp(vr, -1 * Scale, 1 * Scale) >>

\* v[i] of line 62, computed from the clamped inputs (fixed point)
WheelRaw(c) == [i \in 1..4 |-> c[1] * V[i][1] + c[2] * V[i][2] + c[3] * V[i][3]]

\* max_i |v[i]| of line 63 (fixed point), before the division by comb_limit
PeakRaw(v) == Max2(Max2(Max2(Max2(0, Abs(v[1])), Abs(v[2])), Abs(v[3])), Abs(v[4]))

\* Saturated of a mixer that rescales whenever a wheel turns
SaturatedAlways(v) == PeakRaw(v) > 0

\* amplitude /= comb_limit; amplitude > 1
Saturated(v) == PeakRaw(v) > comb_limit * Scale

\* Throttle without the rescaling of lines 67-70
ThrottleOff(v) == [num |-> v, den |-> Scale]

\* Throttle that rescales the peak wheel to 1 instead of comb_limit
ThrottleToUnit(v) ==
    IF Saturated(v)
    THEN [num |-> v, den |-> PeakRaw(v)]
    ELSE [num |-> v, den |-> Scale]

\* wheel speeds after lines 66-70 as exact fractions num[i] / den:
\* v[i] unchanged, or v[i] / (peak / comb_limit)
Throttle(v) ==
    IF Saturated(v)
    THEN [num |-> [i \in 1..4 |-> comb_limit * v[i]], den |-> PeakRaw(v)]
    ELSE [num |-> v, den |-> Scale]

\* std::round(DSHOT_NEUTRAL + max_velocity * v[i]) of line 73
CmdVel(w, i) == RoundPos(DSHOT_NEUTRAL * w.den + max_velocity * w.num[i], w.den)

\* EncodeWheel with the clamp bounds taken around zero instead of around neutral
EncodeWheelZeroCentred(w, i) ==
    ToU16(clamp(CmdVel(w, i), -(max_velocity * comb_limit), max_velocity * comb_limit))

\* lines 74-76: clamp to the envelope and store into the uint16 motor[i]
EncodeWheel(w, i) ==
    ToU16(clamp(CmdVel(w, i),
                DSHOT_NEUTRAL - max_velocity * comb_limit,
                DSHOT_NEUTRAL + max_velocity * comb_limit))

\* motor[0..3] as set_motors computes it from the references' values
MotorOf(vx, vy, vr) ==
    LET w == Throttle(WheelRaw(ClampCmd(vx, vy, vr)))
    IN  [i \in 1..4 |-> EncodeWheel(w, i)]

\* the ASSERT of lines 78-80
SanityOk(motor) == \A i \in 1..4 : motor[i] >= ENVELOPE_LO /\ motor[i] <= ENVELOPE_HI

\* ------------------------------------------------- wire protocol (MultiWii)
\* opcodes of MultiWii/protocol.h
MSP_QRY_RAW_IMU == 102
MSP_QRY_ATTITUDE == 108
MSP_CMD_SET_MOTOR == 214
\* an opcode the driver has no handler for
MSP_OTHER == 101
\* the two sync bytes '$' 'M' that open every frame
SYNC1 == 36
SYNC2 == 77

KnownOps == {MSP_QRY_RAW_IMU, MSP_QRY_ATTITUDE, MSP_CMD_SET_MOTOR}

\* bit k of byte a
Bit(a, k) == (a \div (2 ^ k)) % 2

\* bitwise exclusive or of two bytes
Xor(a, b) ==
    LET x(k) == ((Bit(a, k) + Bit(b, k)) % 2) * (2 ^ k)
    IN  x(0) + x(1) + x(2) + x(3) + x(4) + x(5) + x(6) + x(7)

\* running checksum: acc folded with every byte of bs; bit k of the result
\* is the parity of the bytes that have bit k set
XorAll(acc, bs) ==
    LET ones(k) == Cardinality({n \in 1..Len(bs) : Bit(bs[n], k) = 1})
        x(k) == ((Bit(acc, k) + ones(k)) % 2) * (2 ^ k)
    IN  x(0) + x(1) + x(2) + x(3) + x(4) + x(5) + x(6) + x(7)

\* Checksum with the opcode left out of the sum
ChecksumNoOpcode(op, payload) == XorAll(Len(payload), payload)

\* checksum of a frame: exclusive or of length, opcode and payload bytes
Checksum(op, payload) == XorAll(Xor(Len(payload), op), payload)

\* MultiWii::send<OP>: the bytes written to the transport for one message
Encode(op, payload) ==
    <<SYNC1, SYNC2, Len(payload), op>> \o payload \o <<Checksum(op, payload)>>

\* little-endian bytes of a 16-bit field
U16Bytes(n) == <<n % 256, (n \div 256) % 256>>

\* a 16-bit unsigned / signed field read from two little-endian bytes
U16At(bs, k) == bs[k] + 256 * bs[k + 1]
I16At(bs, k) == IF U16At(bs, k) >= 32768 THEN U16At(bs, k) - 65536 ELSE U16At(bs, k)

\* the payload of a set-motor message: motor[0..3] as 16-bit fields
MotorPayload(motor) ==
    U16Bytes(motor[1]) \o U16Bytes(motor[2]) \o U16Bytes(motor[3]) \o U16Bytes(motor[4])

\* the four motor values a set-motor payload carries
MotorsIn(payload) == [i \in 1..4 |-> U16At(payload, 2 * i - 1)]

\* fields of a frame as it travels on the wire
FrameLen(f) == f[3]
FrameOp(f) == f[4]
FramePayload(f) == SubSeq(f, 5, Len(f) - 1)

\* MultiWii::Receiver after construction: seeking the first sync byte
ReceiverInit ==
    [st |-> "sync1", len |-> 0, op |-> 0, buf |-> <<>>, sum |-> 0,
     ok |-> FALSE, cmd |-> 0, data |-> <<>>]

\* a receiver that drops what it has assembled and seeks sync again,
\* keeping the last complete frame
Resync(r) == [r EXCEPT !.st = "sync1", !.len = 0, !.op = 0, !.buf = <<>>, !.sum = 0]

\* RecvChecksum of a receiver that takes any byte as the checksum
RecvChecksumUnchecked(r, c) ==
    [Resync(r) EXCEPT !.ok = TRUE, !.cmd = r.op, !.data = r.buf]

\* a checksum byte that closes the frame being assembled
RecvChecksum(r, c) ==
    IF c = r.sum
    THEN [Resync(r) EXCEPT !.ok = TRUE, !.cmd = r.op, !.data = r.buf]
    ELSE Resync(r)

\* Receiver::recv(c): the receiver after one byte; .ok is the value returned
RecvStep(r, c) ==
    LET q == [r EXCEPT !.ok = FALSE]
    IN  CASE q.st = "sync1" ->
               IF c = SYNC1 THEN [q EXCEPT !.st = "sync2"] ELSE q
          [] q.st = "sync2" ->
               IF c = SYNC2 THEN [q EXCEPT !.st = "len"]
               ELSE IF c = SYNC1 THEN q
               ELSE Resync(q)
          [] q.st = "len" ->
               [q EXCEPT !.st = "op", !.len = c, !.sum = c]
          [] q.st = "op" ->
               [q EXCEPT !.st = IF q.len = 0 THEN "crc" ELSE "payload",
                         !.op = c, !.sum = Xor(q.sum, c)]
          [] q.st = "payload" ->
               [q EXCEPT !.st = IF Len(q.buf) + 1 = q.len THEN "crc" ELSE "payload",
                         !.buf = Append(q.buf, c), !.sum = Xor(q.sum, c)]
          [] OTHER -> RecvChecksum(q, c)

\* Receiver::match<OP>(): the last complete frame carries opcode op
Match(r, op) == r.cmd = op

\* Receiver::data<OP>(): the payload of the last complete frame
Data(r) == r.data

\* MSP_RAW_IMU_t: accX accY accZ gyrX gyrY gyrZ, 16-bit signed each
RawImuOf(payload) == [k \in 1..6 |-> I16At(payload, 2 * k - 1)]

\* MSP_ATTITUDE_t: angx angy heading, 16-bit signed each
AttitudeOf(payload) == [k \in 1..3 |-> I16At(payload, 2 * k - 1)]

\* --------------------------------------------------------------- the node
VARIABLES
    pc,             \* where the process is: constructor, spin, a tick's step, destructor
    serial_fd,      \* "none", "open", "invalid" (open failed) or "closed"
    vel_set,        \* the base/velocity/set subscription exists
    timer,          \* the 50 ms timer exists
    msg_vel_set,    \* the pending command: NoMsg or the id of a Twist on the heap
    heap,           \* the Twist messages still referenced, by id
    nextId,         \* id of the next message the bus delivers
    args,           \* ids of the messages the arguments of set_motors are bound to
    msp_set_motor,  \* motor[0..3] of the last set-motor message built
    receiver,       \* the MSP receiver
    rxbuf,          \* bytes that arrived at the transport and were not read yet
    devOut,         \* bytes the motor controller has sent that are still in flight
    devCount,       \* frames the motor controller has sent so far
    ticks,          \* timer callbacks started so far
    tickLog,        \* what the current (or last) tick read, transmitted and published
    pendAtStart,    \* the pending command when the tick started
    lastRecv,       \* the most recently received command, as it was received
    sentCount,      \* per message id, the set-motor frames computed from it
    wireFirst,      \* the first frame ever transmitted, and who sent it
    wireLast,       \* the last frame transmitted so far, and who sent it
    probe           \* inputs and results of a function exercised on its own

vars == <<pc, serial_fd, vel_set, timer, msg_vel_set, heap, nextId, args,
          msp_set_motor, receiver, rxbuf, devOut, devCount, ticks, tickLog,
          pendAtStart, lastRecv, sentCount, wireFirst, wireLast, probe>>

NoMsg == 0
NoFrame == [bytes |-> <<>>, by |-> "none"]
\* a heap slot no reference points to
FreeTwist == [live |-> FALSE, lx |-> 0, ly |-> 0, lz |-> 0, ax |-> 0, ay |-> 0, az |-> 0]
NoProbe == [op |-> 0, payload |-> << >>, bad |-> << >>, rets |-> << >>, disp |-> << >>]
NoCmd == [id |-> NoMsg, vx |-> 0, vy |-> 0, vr |-> 0]

\* the steps of one timer callback, in program order
TickSteps == {"serial_in", "update_imu", "update_att", "so_check", "bind",
              "set_motors", "echo", "clear", "qry_imu", "qry_att"}

\* telemetry frames the motor controller answers with
ImuSample == Encode(MSP_QRY_RAW_IMU, <<1, 0, 255, 255, 0, 1, 36, 0, 77, 0, 2, 0>>)
AttSample == Encode(MSP_QRY_ATTITUDE, <<3, 0, 254, 255, 90, 0>>)
OtherSample == Encode(MSP_OTHER, <<7>>)
DevFrames == {ImuSample, AttSample, OtherSample}

\* log entries
TxEvent(frame, src) == [k |-> "tx", ch |-> "serial", data |-> frame, src |-> src]
PubEvent(topic, fields) == [k |-> "pub", ch |-> topic, data |-> fields, src |-> <<>>]
\* a byte read and fed to the receiver: ret is what recv returned, op the
\* opcode of the frame the byte completed
RxEvent(c, r) ==
    [k |-> "rx", ch |-> "serial", data |-> <<c>>, src |-> <<>>,
     ret |-> r.ok, op |-> IF r.ok THEN r.cmd ELSE 0]

\* write(serial_fd, ...): the wire's first and last frame after one more frame;
\* a write to a descriptor that is not open transmits nothing
WireAfter(frame, by) ==
    IF serial_fd = "open"
    THEN << IF wireFirst = NoFrame THEN [bytes |-> frame, by |-> by] ELSE wireFirst,
            [bytes |-> frame, by |-> by] >>
    ELSE << wireFirst, wireLast >>

\* msp_set_motor after set_motors ran its loop of lines 72-81 on motor: every
\* wheel up to and including the first one that fails the sanity check is stored
MotorStored(old, motor) ==
    [i \in 1..4 |->
        IF \A j \in 1..(i - 1) : motor[j] >= ENVELOPE_LO /\ motor[j] <= ENVELOPE_HI
        THEN motor[i] ELSE old[i]]

\* CallbackMayRun of an executor that runs callbacks on several threads
CallbackMayRunConcurrently == pc \in TickSteps \cup {"idle"}

\* rclcpp::spin runs the node's callbacks on one thread, one after the other:
\* a callback starts only when none is running
CallbackMayRun == pc = "idle"

Init ==
    /\ pc = "start"
    /\ serial_fd = "none"
    /\ vel_set = FALSE
    /\ timer = FALSE
    /\ msg_vel_set = NoMsg
    /\ heap = [i \in 1..MaxCmds |-> FreeTwist]
    /\ nextId = 1
    /\ args = << >>
    /\ msp_set_motor = <<0, 0, 0, 0>>
    /\ receiver = ReceiverInit
    /\ rxbuf = << >>
    /\ devOut = << >>
    /\ devCount = 0
    /\ ticks = 0
    /\ tickLog = << >>
    /\ pendAtStart = NoMsg
    /\ lastRecv = NoCmd
    /\ sentCount = [i \in 1..MaxCmds |-> 0]
    /\ wireFirst = NoFrame
    /\ wireLast = NoFrame
    /\ probe = NoProbe

\* the heap once the messages no reference points to are released
Collect(h, ptr, refs) ==
    [i \in 1..MaxCmds |->
        IF i = ptr \/ (\E k \in 1..Len(refs) : refs[k] = i) THEN h[i] ELSE FreeTwist]

\* ------------------------------------------------------------ constructor
\* bytes that may wait at the transport when it is opened
StaleBytes == { << >>, <<SYNC1, SYNC2, 1>> }

\* serial_init, lines 87-93 and 100: the port opens
SerialOpenOk ==
    /\ pc = "start"
    /\ pc' = "opened"
    /\ serial_fd' = "open"
    /\ rxbuf' \in StaleBytes
    /\ UNCHANGED <<probe, vel_set, timer, msg_vel_set, heap, nextId, args, msp_set_motor,
                   receiver, devOut, devCount, ticks, tickLog, pendAtStart,
                   lastRecv, sentCount, wireFirst, wireLast>>

\* OpenFailTarget of a constructor that logs the error and goes on
OpenFailIgnored == "opened"

\* where the constructor goes when serial::open returned a negative
\* descriptor: it throws (lines 94-99)
OpenFailTarget == "open_failed"

\* serial_init, lines 93-99: serial::open fails
SerialOpenFails ==
    /\ pc = "start"
    /\ serial_fd' = "invalid"
    /\ pc' = OpenFailTarget
    /\ UNCHANGED <<probe, vel_set, timer, msg_vel_set, heap, nextId, args,
                   msp_set_motor, receiver, rxbuf, devOut, devCount, ticks, tickLog,
                   pendAtStart, lastRecv, sentCount, wireFirst, wireLast>>

\* the outcome of one call of set_motors(vx, vy, vr) made by who:
\* the motor array stored, whether the sanity check passed, and the wire after
\* it; the motor array and the frame are computed once and then used
SetMotorsCall(vx, vy, vr, who) ==
    CHOOSE call \in
        UNION { { [motor |-> MotorStored(msp_set_motor, motor),
                   ok |-> SanityOk(motor),
                   frame |-> frame,
                   wire |-> IF SanityOk(motor) THEN WireAfter(frame, who)
                            ELSE <<wireFirst, wireLast>>] :
                    frame \in {Encode(MSP_CMD_SET_MOTOR, payload) :
                                 payload \in {MotorPayload(motor)}} } :
                motor \in {MotorOf(vx, vy, vr)} } : TRUE

\* InitHalt of a driver that starts with a forward command
InitHaltForward == <<Scale, 0, 0>>

\* the command serial_init sends (double v = 0, line 105)
InitHalt == <<0, 0, 0>>

\* serial_init, lines 101-107: flush stale bytes, then command neutral
SerialInitNeutral ==
    /\ pc = "opened"
    /\ rxbuf' = << >>
    /\ LET call == SetMotorsCall(InitHalt[1], InitHalt[2], InitHalt[3], "init")
       IN  /\ msp_set_motor' = call.motor
           /\ wireFirst' = call.wire[1]
           /\ wireLast' = call.wire[2]
           /\ pc' = IF call.ok THEN "topics" ELSE "aborted"
    /\ UNCHANGED <<probe, serial_fd, vel_set, timer, msg_vel_set, heap, nextId, args,
                   receiver, devOut, devCount, ticks, tickLog, pendAtStart,
                   lastRecv, sentCount>>

\* constructor, lines 159-178: publishers, subscription and timer; spin starts
CreateTopics ==
    /\ pc = "topics"
    /\ pc' = "idle"
    /\ vel_set' = TRUE
    /\ timer' = TRUE
    /\ UNCHANGED <<probe, serial_fd, msg_vel_set, heap, nextId, args, msp_set_motor,
                   receiver, rxbuf, devOut, devCount, ticks, tickLog, pendAtStart,
                   lastRecv, sentCount, wireFirst, wireLast>>

\* ---------------------------------------------------------- command intake
\* the base/velocity/set callback, lines 162-171, on a message the bus delivers
VelSetCallback(m) ==
    /\ vel_set
    /\ CallbackMayRun
    /\ nextId <= MaxCmds
    /\ msg_vel_set' = nextId
    /\ heap' = Collect([heap EXCEPT ![nextId] =
                          [live |-> TRUE, lx |-> m.lx, ly |-> m.ly, lz |-> 0,
                           ax |-> 0, ay |-> 0, az |-> m.az]],
                       nextId, args)
    /\ lastRecv' = [id |-> nextId, vx |-> m.lx, vy |-> m.ly, vr |-> m.az]
    /\ nextId' = nextId + 1
    /\ UNCHANGED <<probe, pc, serial_fd, vel_set, timer, args, msp_set_motor, receiver,
                   rxbuf, devOut, devCount, ticks, tickLog, pendAtStart, sentCount,
                   wireFirst, wireLast>>

\* the Twist messages the bus may deliver
Twists ==
    { [lx |-> c[1], ly |-> c[2], az |-> c[3], lz |-> o, ax |-> o, ay |-> o] :
        c \in Cmds, o \in OtherVals }

\* ------------------------------------------------------- motor controller
\* how many bytes of a frame arrive at once before the rest follows: the
\* frame is cut after its first payload byte, or not at all
SplitPoints(f) == {5, Len(f)}

\* The motor controller sends frame f and its first k bytes arrive.  The driver
\* looks at the transport only in serial_in, and a byte that arrives while a
\* callback runs is read exactly as if it had arrived just before that callback
\* or just after it: arrivals are taken between callbacks
DeviceSend(f, k) ==
    /\ serial_fd = "open"
    /\ pc = "idle"
    /\ devOut = << >>
    /\ devCount < MaxDevFrames
    /\ rxbuf' = rxbuf \o SubSeq(f, 1, k)
    /\ devOut' = SubSeq(f, k + 1, Len(f))
    /\ devCount' = devCount + 1
    /\ UNCHANGED <<probe, pc, serial_fd, vel_set, timer, msg_vel_set, heap, nextId, args,
                   msp_set_motor, receiver, ticks, tickLog, pendAtStart,
                   lastRecv, sentCount, wireFirst, wireLast>>

\* the bytes still in flight arrive at the transport
DeviceRestArrives ==
    /\ serial_fd = "open"
    /\ pc = "idle"
    /\ devOut # << >>
    /\ rxbuf' = rxbuf \o devOut
    /\ devOut' = << >>
    /\ UNCHANGED <<probe, pc, serial_fd, vel_set, timer, msg_vel_set, heap, nextId, args,
                   msp_set_motor, receiver, devCount, ticks, tickLog, pendAtStart,
                   lastRecv, sentCount, wireFirst, wireLast>>

\* ------------------------------------------------------- the timer callback
\* ReceiverAtTick of a callback that starts every tick with a fresh receiver
ReceiverFresh(r) == ReceiverInit

\* the receiver a timer callback starts with: receiver is a member of the
\* node (line 49) and the callback does not touch it before serial_in
ReceiverAtTick(r) == r

\* the 50 ms timer fires and its callback starts (lines 175-178)
TimerFire ==
    /\ timer
    /\ CallbackMayRun
    /\ ticks < MaxTicks
    /\ pc' = "serial_in"
    /\ ticks' = ticks + 1
    /\ tickLog' = << >>
    /\ pendAtStart' = msg_vel_set
    /\ receiver' = ReceiverAtTick(receiver)
    /\ UNCHANGED <<probe, serial_fd, vel_set, timer, msg_vel_set, heap, nextId, args,
                   msp_set_motor, rxbuf, devOut, devCount, lastRecv,
                   sentCount, wireFirst, wireLast>>

\* AfterRecv of a drain that hands every complete frame to the inertial handler
AfterRecvAllImu(r) == IF r.ok THEN "update_imu" ELSE "serial_in"

\* where serial_in goes after recv(c), lines 114-119
AfterRecv(r) ==
    IF ~r.ok THEN "serial_in"
    ELSE IF Match(r, MSP_QRY_RAW_IMU) THEN "update_imu"
    ELSE IF Match(r, MSP_QRY_ATTITUDE) THEN "update_att"
    ELSE "serial_in"

\* serial_in, lines 113-119: one byte is read and fed to the receiver
SerialInByte ==
    /\ pc = "serial_in"
    /\ rxbuf # << >>
    /\ receiver' = RecvStep(receiver, Head(rxbuf))
    /\ rxbuf' = Tail(rxbuf)
    /\ tickLog' = Append(tickLog, RxEvent(Head(rxbuf), receiver'))
    /\ pc' = AfterRecv(receiver')
    /\ UNCHANGED <<probe, serial_fd, vel_set, timer, msg_vel_set, heap, nextId, args,
                   msp_set_motor, devOut, devCount, ticks, pendAtStart, lastRecv,
                   sentCount, wireFirst, wireLast>>

\* update(MSP_RAW_IMU_t), lines 124-132: the record is filled and published
UpdateImu ==
    /\ pc = "update_imu"
    /\ tickLog' = Append(tickLog, PubEvent("base/imu/acc", RawImuOf(Data(receiver))))
    /\ pc' = "serial_in"
    /\ UNCHANGED <<probe, serial_fd, vel_set, timer, msg_vel_set, heap, nextId, args,
                   msp_set_motor, receiver, rxbuf, devOut, devCount, ticks,
                   pendAtStart, lastRecv, sentCount, wireFirst, wireLast>>

\* update(MSP_ATTITUDE_t), lines 134-139: linear stays zero, angular is filled
UpdateAtt ==
    /\ pc = "update_att"
    /\ tickLog' = Append(tickLog,
                         PubEvent("base/imu/att",
                                  <<0, 0, 0>> \o AttitudeOf(Data(receiver))))
    /\ pc' = "serial_in"
    /\ UNCHANGED <<probe, serial_fd, vel_set, timer, msg_vel_set, heap, nextId, args,
                   msp_set_motor, receiver, rxbuf, devOut, devCount, ticks,
                   pendAtStart, lastRecv, sentCount, wireFirst, wireLast>>

\* the steps at which the callback calls Publisher::publish
PublishSteps == {"update_imu", "update_att", "echo"}

\* where an exception thrown by publish lands: nothing between the call and
\* main catches it, so it leaves the timer callback, spin and main
PublishThrowTarget == "crashed"

\* Publisher::publish throws (lines 41, 147)
PublishThrows ==
    /\ pc \in PublishSteps
    /\ pc' = PublishThrowTarget
    /\ UNCHANGED <<probe, serial_fd, vel_set, timer, msg_vel_set, heap, nextId, args,
                   msp_set_motor, receiver, rxbuf, devOut, devCount, ticks, tickLog,
                   pendAtStart, lastRecv, sentCount, wireFirst, wireLast>>

\* serial_in, line 113: read finds no byte; serial_out starts
SerialInDone ==
    /\ pc = "serial_in"
    /\ rxbuf = << >>
    /\ pc' = "so_check"
    /\ UNCHANGED <<probe, serial_fd, vel_set, timer, msg_vel_set, heap, nextId, args,
                   msp_set_motor, receiver, rxbuf, devOut, devCount, ticks, tickLog,
                   pendAtStart, lastRecv, sentCount, wireFirst, wireLast>>

\* serial_out, line 142: is a command pending
SerialOutCheck ==
    /\ pc = "so_check"
    /\ pc' = (IF msg_vel_set # NoMsg THEN "bind" ELSE "qry_imu")
    /\ UNCHANGED <<probe, serial_fd, vel_set, timer, msg_vel_set, heap, nextId, args,
                   msp_set_motor, receiver, rxbuf, devOut, devCount, ticks, tickLog,
                   pendAtStart, lastRecv, sentCount, wireFirst, wireLast>>

\* serial_out, lines 144-145: one argument of set_motors is bound to a field of
\* the message msg_vel_set points to now (linear.x, linear.y, angular.z)
SerialOutBind ==
    /\ pc = "bind"
    /\ msg_vel_set # NoMsg
    /\ args' = Append(args, msg_vel_set)
    /\ pc' = IF Len(args) = 2 THEN "set_motors" ELSE "bind"
    /\ UNCHANGED <<probe, serial_fd, vel_set, timer, msg_vel_set, heap, nextId,
                   msp_set_motor, receiver, rxbuf, devOut, devCount, ticks, tickLog,
                   pendAtStart, lastRecv, sentCount, wireFirst, wireLast>>

\* ClampInPlace when set_motors takes its arguments by value
ClampOnCopy(h, refs) == h

\* the heap after the clamps of lines 56-58 wrote through the three references
ClampInPlace(h, refs) ==
    LET h1 == [h EXCEPT ![refs[1]].lx = clamp(@, -1 * Scale, 1 * Scale)]
        h2 == [h1 EXCEPT ![refs[2]].ly = clamp(@, -1 * Scale, 1 * Scale)]
    IN  [h2 EXCEPT ![refs[3]].az = clamp(@, -1 * Scale, 1 * Scale)]

\* serial_out, lines 144-145 with set_motors, lines 54-83
SerialOutSetMotors ==
    /\ pc = "set_motors"
    /\ \E call \in {SetMotorsCall(heap[args[1]].lx, heap[args[2]].ly,
                                    heap[args[3]].az, "tick")} :
           /\ msp_set_motor' = call.motor
           /\ wireFirst' = call.wire[1]
           /\ wireLast' = call.wire[2]
           /\ pc' = IF call.ok THEN "echo" ELSE "aborted"
           /\ tickLog' = IF call.ok /\ serial_fd = "open"
                         THEN Append(tickLog, TxEvent(call.frame, args))
                         ELSE tickLog
           /\ sentCount' = IF call.ok /\ serial_fd = "open"
                           THEN [i \in 1..MaxCmds |->
                                   IF \E k \in 1..3 : args[k] = i
                                   THEN sentCount[i] + 1 ELSE sentCount[i]]
                           ELSE sentCount
    /\ heap' = Collect(ClampInPlace(heap, args), msg_vel_set, << >>)
    /\ args' = << >>
    /\ UNCHANGED <<probe, serial_fd, vel_set, timer, msg_vel_set, nextId, receiver, rxbuf,
                   devOut, devCount, ticks, pendAtStart, lastRecv>>

\* the fields of a Twist in message order
TwistFields(t) == <<t.lx, t.ly, t.lz, t.ax, t.ay, t.az>>

\* what serial_out hands to vel_get->publish, line 147
EchoOf(h, ptr) == TwistFields(h[ptr])

\* serial_out, line 147: the command is echoed on base/velocity/get
SerialOutEcho ==
    /\ pc = "echo"
    /\ msg_vel_set # NoMsg
    /\ tickLog' = Append(tickLog, PubEvent("base/velocity/get", EchoOf(heap, msg_vel_set)))
    /\ pc' = "clear"
    /\ UNCHANGED <<probe, serial_fd, vel_set, timer, msg_vel_set, heap, nextId, args,
                   msp_set_motor, receiver, rxbuf, devOut, devCount, ticks,
                   pendAtStart, lastRecv, sentCount, wireFirst, wireLast>>

\* Cleared without the assignment of line 148
ClearedNot(ptr) == ptr

\* the pending command after line 148
Cleared(ptr) == NoMsg

\* serial_out, line 148: msg_vel_set = nullptr
SerialOutClear ==
    /\ pc = "clear"
    /\ msg_vel_set' = Cleared(msg_vel_set)
    /\ heap' = Collect(heap, msg_vel_set', args)
    /\ pc' = "qry_imu"
    /\ UNCHANGED <<probe, serial_fd, vel_set, timer, nextId, args, msp_set_motor, receiver,
                   rxbuf, devOut, devCount, ticks, tickLog, pendAtStart, lastRecv,
                   sentCount, wireFirst, wireLast>>

\* QueryAt with the two queries in the other order
QueryAtSwapped(step) == IF step = "qry_imu" THEN MSP_QRY_ATTITUDE ELSE MSP_QRY_RAW_IMU

\* the telemetry query serial_out sends at a step, lines 151-152
QueryAt(step) == IF step = "qry_imu" THEN MSP_QRY_RAW_IMU ELSE MSP_QRY_ATTITUDE

\* the step after a query; after the second one the callback returns
AfterQuery(step) == IF step = "qry_imu" THEN "qry_att" ELSE "idle"

\* serial_out, lines 151-152: one query is transmitted
SerialOutQuery ==
    /\ pc \in {"qry_imu", "qry_att"}
    /\ LET frame == Encode(QueryAt(pc), << >>)
           wire == WireAfter(frame, "tick")
       IN  /\ wireFirst' = wire[1]
           /\ wireLast' = wire[2]
           /\ tickLog' = IF serial_fd = "open"
                         THEN Append(tickLog, TxEvent(frame, << >>))
                         ELSE tickLog
    /\ pc' = AfterQuery(pc)
    /\ UNCHANGED <<probe, serial_fd, vel_set, timer, msg_vel_set, heap, nextId, args,
                   msp_set_motor, receiver, rxbuf, devOut, devCount, ticks,
                   pendAtStart, lastRecv, sentCount>>

\* ---------------------------------------------------------------- shutdown
\* spin returns between two callbacks and the node is destroyed (line 193)
SpinReturns ==
    /\ pc = "idle"
    /\ pc' = "dtor"
    /\ UNCHANGED <<probe, serial_fd, vel_set, timer, msg_vel_set, heap, nextId, args,
                   msp_set_motor, receiver, rxbuf, devOut, devCount, ticks, tickLog,
                   pendAtStart, lastRecv, sentCount, wireFirst, wireLast>>

\* whether the stack is unwound when no handler exists is up to the
\* implementation: the node's destructor may still run after the throw
Unwind ==
    /\ pc = "crashed"
    /\ pc' = "dtor"
    /\ UNCHANGED <<probe, serial_fd, vel_set, timer, msg_vel_set, heap, nextId, args,
                   msp_set_motor, receiver, rxbuf, devOut, devCount, ticks, tickLog,
                   pendAtStart, lastRecv, sentCount, wireFirst, wireLast>>

\* the command the destructor sends (double v = 0, line 183)
DtorHalt == <<0, 0, 0>>

\* ~BaseDriver, lines 183-185: command neutral
DtorNeutral ==
    /\ pc = "dtor"
    /\ LET call == SetMotorsCall(DtorHalt[1], DtorHalt[2], DtorHalt[3], "dtor")
       IN  /\ msp_set_motor' = call.motor
           /\ wireFirst' = call.wire[1]
           /\ wireLast' = call.wire[2]
           /\ pc' = IF call.ok THEN "dtor_close" ELSE "aborted"
    /\ UNCHANGED <<probe, serial_fd, vel_set, timer, msg_vel_set, heap, nextId, args,
                   receiver, rxbuf, devOut, devCount, ticks, tickLog, pendAtStart,
                   lastRecv, sentCount>>

\* ~BaseDriver, line 187: the transport is released
DtorClose ==
    /\ pc = "dtor_close"
    /\ serial_fd' = "closed"
    /\ pc' = "exited"
    /\ UNCHANGED <<probe, vel_set, timer, msg_vel_set, heap, nextId, args, msp_set_motor,
                   receiver, rxbuf, devOut, devCount, ticks, tickLog, pendAtStart,
                   lastRecv, sentCount, wireFirst, wireLast>>

Next ==
    \/ SerialOpenOk
    \/ SerialOpenFails
    \/ SerialInitNeutral
    \/ CreateTopics
    \/ \E m \in Twists : VelSetCallback(m)
    \/ \E f \in DevFrames : \E k \in SplitPoints(f) : DeviceSend(f, k)
    \/ DeviceRestArrives
    \/ TimerFire
    \/ SerialInByte
    \/ UpdateImu
    \/ UpdateAtt
    \/ PublishThrows
    \/ SerialInDone
    \/ SerialOutCheck
    \/ SerialOutBind
    \/ SerialOutSetMotors
    \/ SerialOutEcho
    \/ SerialOutClear
    \/ SerialOutQuery
    \/ SpinReturns
    \/ Unwind
    \/ DtorNeutral
    \/ DtorClose

Spec == Init /\ [][Next]_vars

\* ------------------------------------------ commands and ticks, running on
\* the steps of a timer callback that reads no byte and whose publish succeeds
TickStep ==
    \/ SerialInDone
    \/ SerialOutCheck
    \/ SerialOutBind
    \/ SerialOutSetMotors
    \/ SerialOutEcho
    \/ SerialOutClear
    \/ SerialOutQuery

\* the node while it keeps running: the constructor succeeds, commands
\* arrive, the timer fires, the motor controller is silent, no publish fails
\* and spin does not return
NextLive ==
    \/ SerialOpenOk
    \/ SerialInitNeutral
    \/ CreateTopics
    \/ \E m \in Twists : VelSetCallback(m)
    \/ TimerFire
    \/ TickStep

\* the timer fires every 50 ms as long as spin runs, and a callback that has
\* started runs to its end
SpecLive ==
    /\ Init
    /\ [][NextLive]_vars
    /\ WF_vars(TimerFire)
    /\ WF_vars(TickStep)

\* ------------------------------------------------- the codec on its own
\* payloads offered to the codec: every byte string over ByteVals up to
\* MaxPayload bytes, and the payloads of the telemetry samples
Payloads ==
    UNION {[1..n -> ByteVals] : n \in 0..MaxPayload}
        \cup {FramePayload(ImuSample), FramePayload(AttSample)}

\* frame with the byte at position k replaced by b, its checksum left alone
Corrupt(frame, k, b) == [frame EXCEPT ![k] = b]

\* the positions of a frame's payload bytes
PayloadPositions(frame) == 5..(Len(frame) - 1)

\* the byte streams handed to a fresh receiver: one encoded frame (probe.op,
\* probe.payload), or a frame with one payload byte altered followed at once
\* by a telemetry frame (probe.op, probe.payload)
CodecInputs ==
    { [pc |-> "codec", bad |-> << >>, op |-> op, payload |-> payload] :
        op \in KnownOps, payload \in Payloads }
    \cup
    UNION { UNION { { [pc |-> "codec_bad", bad |-> Corrupt(g, k, b),
                       op |-> FrameOp(f), payload |-> FramePayload(f)] :
                        b \in ByteVals \ {g[k]}, f \in DevFrames } :
                    k \in PayloadPositions(g) } :
            g \in {Encode(op, payload) : op \in KnownOps, payload \in Payloads} }

\* the two ways the codec is exercised on its own
CodecModes == {"codec", "codec_bad"}

\* an opcode and a payload are encoded and handed to a fresh receiver
InitCodec ==
    /\ serial_fd = "none"
    /\ vel_set = FALSE
    /\ timer = FALSE
    /\ msg_vel_set = NoMsg
    /\ heap = [i \in 1..MaxCmds |-> FreeTwist]
    /\ nextId = 1
    /\ args = << >>
    /\ msp_set_motor = <<0, 0, 0, 0>>
    /\ receiver = ReceiverInit
    /\ devOut = << >>
    /\ devCount = 0
    /\ ticks = 0
    /\ tickLog = << >>
    /\ pendAtStart = NoMsg
    /\ lastRecv = NoCmd
    /\ sentCount = [i \in 1..MaxCmds |-> 0]
    /\ wireFirst = NoFrame
    /\ wireLast = NoFrame
    /\ \E inp \in CodecInputs :
          /\ pc = inp.pc
          /\ probe = [op |-> inp.op, payload |-> inp.payload, bad |-> inp.bad,
                      rets |-> << >>, disp |-> << >>]
          /\ rxbuf = inp.bad \o Encode(inp.op, inp.payload)

\* the next byte of the stream is fed to the receiver as serial_in does
\* (lines 113-119); recv's result and the handler chosen are noted
FeedByte ==
    /\ pc \in CodecModes
    /\ rxbuf # << >>
    /\ receiver' = RecvStep(receiver, Head(rxbuf))
    /\ rxbuf' = Tail(rxbuf)
    /\ probe' = [probe EXCEPT !.rets = Append(@, receiver'.ok),
                              !.disp = Append(@, AfterRecv(receiver'))]
    /\ UNCHANGED <<pc, serial_fd, vel_set, timer, msg_vel_set, heap, nextId, args,
                   msp_set_motor, devOut, devCount, ticks, tickLog, pendAtStart,
                   lastRecv, sentCount, wireFirst, wireLast>>

NextCodec == FeedByte

SpecCodec == InitCodec /\ [][NextCodec]_vars

\* ------------------------------------------------ set_motors on its own
\* the commands handed to set_motors: every triple over MixVals
MixInputs == MixVals \X MixVals \X MixVals

\* the intermediate values of one call of set_motors, none computed yet
MixProbe(c) ==
    [cmd |-> c, c |-> << >>, v |-> << >>, w |-> << >>, cmd_vel |-> << >>,
     motor |-> << >>]

\* a constructed node (transport open, neutral commanded, topics created)
\* calls set_motors on a command
InitMix ==
    /\ pc = "mix_clamp"
    /\ serial_fd = "open"
    /\ vel_set = TRUE
    /\ timer = TRUE
    /\ msg_vel_set = NoMsg
    /\ heap = [i \in 1..MaxCmds |-> FreeTwist]
    /\ nextId = 1
    /\ args = << >>
    /\ msp_set_motor = MotorOf(InitHalt[1], InitHalt[2], InitHalt[3])
    /\ receiver = ReceiverInit
    /\ rxbuf = << >>
    /\ devOut = << >>
    /\ devCount = 0
    /\ ticks = 0
    /\ tickLog = << >>
    /\ pendAtStart = NoMsg
    /\ lastRecv = NoCmd
    /\ sentCount = [i \in 1..MaxCmds |-> 0]
    /\ wireFirst = [bytes |-> Encode(MSP_CMD_SET_MOTOR, MotorPayload(msp_set_motor)),
                    by |-> "init"]
    /\ wireLast = wireFirst
    /\ \E c \in MixInputs : probe = MixProbe(c)

\* set_motors, lines 56-58: the three inputs are clamped
MixClamp ==
    /\ pc = "mix_clamp"
    /\ probe' = [probe EXCEPT !.c = ClampCmd(probe.cmd[1], probe.cmd[2], probe.cmd[3])]
    /\ pc' = "mix_dot"
    /\ UNCHANGED <<serial_fd, vel_set, timer, msg_vel_set, heap, nextId, args,
                   msp_set_motor, receiver, rxbuf, devOut, devCount, ticks, tickLog,
                   pendAtStart, lastRecv, sentCount, wireFirst, wireLast>>

\* set_motors, lines 59-64: the four dot products
MixDot ==
    /\ pc = "mix_dot"
    /\ probe' = [probe EXCEPT !.v = WheelRaw(probe.c)]
    /\ pc' = "mix_throttle"
    /\ UNCHANGED <<serial_fd, vel_set, timer, msg_vel_set, heap, nextId, args,
                   msp_set_motor, receiver, rxbuf, devOut, devCount, ticks, tickLog,
                   pendAtStart, lastRecv, sentCount, wireFirst, wireLast>>

\* set_motors, lines 65-70: throttling
MixThrottle ==
    /\ pc = "mix_throttle"
    /\ probe' = [probe EXCEPT !.w = Throttle(probe.v)]
    /\ pc' = "mix_encode"
    /\ UNCHANGED <<serial_fd, vel_set, timer, msg_vel_set, heap, nextId, args,
                   msp_set_motor, receiver, rxbuf, devOut, devCount, ticks, tickLog,
                   pendAtStart, lastRecv, sentCount, wireFirst, wireLast>>

\* set_motors, lines 71-82: the wheels are encoded, checked and transmitted
MixEncode ==
    /\ pc = "mix_encode"
    /\ LET motor == [i \in 1..4 |-> EncodeWheel(probe.w, i)]
           frame == Encode(MSP_CMD_SET_MOTOR, MotorPayload(motor))
           wire == IF SanityOk(motor) THEN WireAfter(frame, "mix")
                   ELSE <<wireFirst, wireLast>>
       IN  /\ probe' = [probe EXCEPT !.cmd_vel = [i \in 1..4 |-> CmdVel(probe.w, i)],
                                     !.motor = motor]
           /\ msp_set_motor' = MotorStored(msp_set_motor, motor)
           /\ wireFirst' = wire[1]
           /\ wireLast' = wire[2]
           /\ pc' = IF SanityOk(motor) THEN "mix_done" ELSE "aborted"
    /\ UNCHANGED <<serial_fd, vel_set, timer, msg_vel_set, heap, nextId, args,
                   receiver, rxbuf, devOut, devCount, ticks, tickLog,
                   pendAtStart, lastRecv, sentCount>>

NextMix == MixClamp \/ MixDot \/ MixThrottle \/ MixEncode

SpecMix == InitMix /\ [][NextMix]_vars

\* ------------------------------------------------ the drain on its own
\* a raw-inertial frame whose first payload byte was altered on the line
BadSample == Corrupt(ImuSample, 5, SYNC2)

\* what may wait at the transport when a tick starts: up to MaxStream frames
\* back to back, each a telemetry frame, a frame with an opcode the driver
\* has no handler for, or a damaged frame
StreamFrames == DevFrames \cup {BadSample}

RECURSIVE Flatten(_)
\* the bytes of a sequence of frames
Flatten(fs) == IF fs = << >> THEN << >> ELSE Head(fs) \o Flatten(Tail(fs))

Streams == UNION {[1..n -> StreamFrames] : n \in 0..MaxStream}

\* a constructed node (transport open, neutral commanded, topics created,
\* no command received) with a stream of frames waiting at the transport
InitDrain ==
    /\ pc = "idle"
    /\ serial_fd = "open"
    /\ vel_set = TRUE
    /\ timer = TRUE
    /\ msg_vel_set = NoMsg
    /\ heap = [i \in 1..MaxCmds |-> FreeTwist]
    /\ nextId = 1
    /\ args = << >>
    /\ msp_set_motor = MotorOf(InitHalt[1], InitHalt[2], InitHalt[3])
    /\ receiver = ReceiverInit
    /\ devOut = << >>
    /\ ticks = 0
    /\ tickLog = << >>
    /\ pendAtStart = NoMsg
    /\ lastRecv = NoCmd
    /\ sentCount = [i \in 1..MaxCmds |-> 0]
    /\ wireFirst = [bytes |-> Encode(MSP_CMD_SET_MOTOR, MotorPayload(msp_set_motor)),
                    by |-> "init"]
    /\ wireLast = wireFirst
    /\ \E fs \in Streams :
          /\ probe = [stream |-> fs]
          /\ devCount = Len(fs)
          /\ rxbuf = Flatten(fs)

\* the timer callback with no command intake: drain, then the two queries
NextDrain ==
    \/ TimerFire
    \/ SerialInByte
    \/ UpdateImu
    \/ UpdateAtt
    \/ PublishThrows
    \/ SerialInDone
    \/ SerialOutCheck
    \/ SerialOutQuery

SpecDrain == InitDrain /\ [][NextDrain]_vars

\* ------------------------------------------------------------- properties
\* a log entry is a transmitted frame with opcode op
IsTx(e, op) == e.k = "tx" /\ FrameOp(e.data) = op

\* a log entry is a publication on topic
IsPub(e, topic) == e.k = "pub" /\ e.ch = topic

\* how many entries of log satisfy P
Count(log, P(_)) == Cardinality({n \in 1..Len(log) : P(log[n])})

IsSetMotorTx(e) == IsTx(e, MSP_CMD_SET_MOTOR)
IsImuQueryTx(e) == IsTx(e, MSP_QRY_RAW_IMU)
IsAttQueryTx(e) == IsTx(e, MSP_QRY_ATTITUDE)
IsEchoPub(e) == IsPub(e, "base/velocity/get")
IsTelemetryPub(e) == IsPub(e, "base/imu/acc") \/ IsPub(e, "base/imu/att")

\* the set-motor frame that carries the neutral command
NeutralFrame ==
    Encode(MSP_CMD_SET_MOTOR,
           MotorPayload(<<DSHOT_NEUTRAL, DSHOT_NEUTRAL, DSHOT_NEUTRAL, DSHOT_NEUTRAL>>))

\* the four values of a set-motor frame lie in the safety envelope
FrameInEnvelope(f) ==
    \A i \in 1..4 :
        /\ MotorsIn(FramePayload(f))[i] >= ENVELOPE_LO
        /\ MotorsIn(FramePayload(f))[i] <= ENVELOPE_HI

\* the set-motor frame set_motors builds for the command as it was received
FrameFor(c) == Encode(MSP_CMD_SET_MOTOR, MotorPayload(MotorOf(c.vx, c.vy, c.vr)))

\* the last tick ran to its end and nothing ran since
TickComplete == pc = "idle" /\ ticks > 0

\* some component of the most recently received command lies outside [-1, 1]
LastRecvOutOfRange ==
    \/ Abs(lastRecv.vx) > Scale
    \/ Abs(lastRecv.vy) > Scale
    \/ Abs(lastRecv.vr) > Scale

\* C1: every set-motor frame transmitted, at startup, by a tick or at
\* shutdown, carries four values in [1400, 1600], whatever command was
\* received; the sanity check of set_motors never fails.  The first conjunct
\* evaluates set_motors on the whole grid MixVals, out-of-range values included.
C1_MotorEnvelope ==
    /\ pc = "start" =>
          \A x \in MixVals : \A y \in MixVals : \A r \in MixVals :
              SanityOk(MotorOf(x, y, r))
    /\ pc # "aborted"
    /\ SanityOk(msp_set_motor) \/ pc \in {"start", "opened", "open_failed"}
    /\ \A n \in 1..Len(tickLog) :
          IsSetMotorTx(tickLog[n]) => FrameInEnvelope(tickLog[n].data)
    /\ \A w \in {wireFirst, wireLast} :
          (w # NoFrame /\ FrameOp(w.bytes) = MSP_CMD_SET_MOTOR) => FrameInEnvelope(w.bytes)

\* C1 witness: a tick has transmitted the frame of a command with a component
\* outside [-1, 1], and a wheel sits on the envelope's edge
C1_Witness ==
    /\ pc = "echo"
    /\ LastRecvOutOfRange
    /\ wireLast.by = "tick"
    /\ wireLast.bytes = FrameFor(lastRecv)
    /\ \E i \in 1..4 : msp_set_motor[i] = ENVELOPE_HI

\* C2: the pending command is last-write-wins and consumed at most once: a
\* tick that starts with a command pending transmits exactly one set-motor
\* frame, computed from the most recently received command; an overwritten
\* command is never transmitted; after the clear nothing is pending, and no
\* command is transmitted twice.
C2_LastWriteWins ==
    /\ \A i \in 1..MaxCmds : sentCount[i] <= 1
    /\ (msg_vel_set # NoMsg /\ pc \in ({"idle"} \cup TickSteps) \ {"echo", "clear"}) =>
          (msg_vel_set = lastRecv.id /\ sentCount[msg_vel_set] = 0)
    /\ \A i \in 1..MaxCmds : (sentCount[i] = 1 /\ pc \in TickSteps) => i <= lastRecv.id
    /\ pc \in TickSteps =>
          \A n \in 1..Len(tickLog) :
              IsSetMotorTx(tickLog[n]) =>
                  /\ tickLog[n].src = <<lastRecv.id, lastRecv.id, lastRecv.id>>
                  /\ tickLog[n].data = FrameFor(lastRecv)
    /\ (pc \in {"qry_imu", "qry_att"} \/ TickComplete) =>
          Count(tickLog, IsSetMotorTx) = (IF pendAtStart # NoMsg THEN 1 ELSE 0)
    /\ pc \in {"qry_imu", "qry_att"} => msg_vel_set = NoMsg

\* C2 witness: two commands arrived before a tick; the tick transmitted the
\* second one only and cleared the slot
C2_Witness ==
    /\ pc = "qry_att"
    /\ lastRecv.id = 2
    /\ pendAtStart = 2
    /\ sentCount[1] = 0
    /\ sentCount[2] = 1
    /\ msg_vel_set = NoMsg
    /\ Count(tickLog, IsSetMotorTx) = 1

\* C3: under every interleaving of command intake and timer callback, the
\* three references handed to set_motors are bound to one and the same
\* received message, so vx, vy and vr of a transmitted frame come from one
\* command: the command most recently received.
C3_NoTornRead ==
    /\ \A k \in 1..Len(args) : args[k] = msg_vel_set /\ args[k] = lastRecv.id
    /\ \A n \in 1..Len(tickLog) :
          IsSetMotorTx(tickLog[n]) =>
              /\ tickLog[n].src[1] = tickLog[n].src[2]
              /\ tickLog[n].src[2] = tickLog[n].src[3]
    /\ pc = "echo" =>
          /\ wireLast.bytes = FrameFor(lastRecv)
          /\ msp_set_motor = MotorOf(lastRecv.vx, lastRecv.vy, lastRecv.vr)

\* C3 witness: a second command replaced the first one, and a tick bound all
\* three arguments to it and transmitted its frame
C3_Witness ==
    /\ pc = "echo"
    /\ lastRecv.id = 2
    /\ tickLog[Len(tickLog)].src = <<2, 2, 2>>
    /\ lastRecv.vx # 0 /\ lastRecv.vy # 0 /\ lastRecv.vr # 0

\* the place of a log entry in a tick: reading and telemetry, the set-motor
\* frame, the echo, the raw-inertial query, the attitude query
Phase(e) ==
    IF e.k = "rx" \/ IsTelemetryPub(e) THEN 1
    ELSE IF IsSetMotorTx(e) THEN 2
    ELSE IF IsEchoPub(e) THEN 3
    ELSE IF IsImuQueryTx(e) THEN 4
    ELSE IF IsAttQueryTx(e) THEN 5
    ELSE 0

\* C4: a tick's steps come in the fixed order drain (with the telemetry
\* publications), set-motor frame, echo, raw-inertial query, attitude query;
\* a tick that runs to its end has transmitted exactly one raw-inertial and
\* exactly one attitude query, command or not, inbound bytes or not.
C4_TickOrder ==
    /\ \A n \in 1..Len(tickLog) : Phase(tickLog[n]) # 0
    /\ \A m \in 1..Len(tickLog) : \A n \in 1..Len(tickLog) :
          m < n => /\ Phase(tickLog[m]) <= Phase(tickLog[n])
                   /\ Phase(tickLog[n]) > 1 => Phase(tickLog[m]) < Phase(tickLog[n])
    /\ Count(tickLog, IsEchoPub) <= Count(tickLog, IsSetMotorTx)
    /\ pc \in {"clear", "qry_imu", "qry_att"} =>
          Count(tickLog, IsEchoPub) = Count(tickLog, IsSetMotorTx)
    /\ pc = "qry_imu" => Count(tickLog, IsImuQueryTx) = 0
    /\ pc = "qry_att" =>
          Count(tickLog, IsImuQueryTx) = 1 /\ Count(tickLog, IsAttQueryTx) = 0
    /\ TickComplete =>
          /\ Count(tickLog, IsImuQueryTx) = 1
          /\ Count(tickLog, IsAttQueryTx) = 1
          /\ Count(tickLog, IsEchoPub) = Count(tickLog, IsSetMotorTx)
          /\ IsAttQueryTx(tickLog[Len(tickLog)])
          /\ IsImuQueryTx(tickLog[Len(tickLog) - 1])

\* C4 witness: a complete tick that drained a telemetry frame and published
\* it, transmitted a command and echoed it, and sent both queries
C4_Witness ==
    /\ TickComplete
    /\ Count(tickLog, IsTelemetryPub) = 1
    /\ Count(tickLog, IsSetMotorTx) = 1
    /\ Count(tickLog, IsEchoPub) = 1
    /\ Count(tickLog, IsImuQueryTx) = 1
    /\ Count(tickLog, IsAttQueryTx) = 1

\* C4 witness of the other case: a complete tick with no command pending and
\* no inbound byte, which sent the two queries and nothing else
C4_WitnessIdle ==
    /\ TickComplete
    /\ Len(tickLog) = 2

\* what a tick that started with no command pending may have in its log:
\* bytes read, telemetry published, and the two queries
IdleTickEntry(e) ==
    e.k = "rx" \/ IsTelemetryPub(e) \/ IsImuQueryTx(e) \/ IsAttQueryTx(e)

\* the frames a log holds, in order
TxFrames(log) == SelectSeq(log, LAMBDA e : e.k = "tx")

\* C5 (state part): in a tick that started with no command pending there is
\* no set-motor frame and no echo, nothing becomes pending, and once the tick
\* has run to its end the frames it sent are the two queries.
C5_IdleTickState ==
    /\ (pc \in TickSteps /\ pendAtStart = NoMsg) =>
          /\ msg_vel_set = NoMsg
          /\ pc \notin {"bind", "set_motors", "echo", "clear"}
          /\ \A n \in 1..Len(tickLog) : IdleTickEntry(tickLog[n])
    /\ (TickComplete /\ pendAtStart = NoMsg) =>
          /\ \A n \in 1..Len(tickLog) : IdleTickEntry(tickLog[n])
          /\ Len(TxFrames(tickLog)) = 2
          /\ TxFrames(tickLog)[1].data = Encode(MSP_QRY_RAW_IMU, << >>)
          /\ TxFrames(tickLog)[2].data = Encode(MSP_QRY_ATTITUDE, << >>)

\* C5 (step part): no step of such a tick changes the last motor command or
\* the pending command, and the only frames it puts on the wire are queries.
C5_IdleTickStep ==
    (pc \in TickSteps /\ pendAtStart = NoMsg) =>
        /\ msp_set_motor' = msp_set_motor
        /\ msg_vel_set' = msg_vel_set
        /\ wireLast' # wireLast => FrameOp(wireLast'.bytes) \in {MSP_QRY_RAW_IMU, MSP_QRY_ATTITUDE}

\* C5: a tick that starts with no command pending transmits no set-motor
\* frame, publishes no echo, leaves the last motor command and the pending
\* command unchanged, and transmits only the two telemetry queries.
C5_IdleTickIsNoop == [](C5_IdleTickState) /\ [][C5_IdleTickStep]_vars

\* C5 witness: a command was transmitted by the first tick, and the second
\* tick started with nothing pending, ran to its end and left the motor
\* command of the first tick in place
C5_Witness ==
    /\ TickComplete
    /\ ticks = 2
    /\ pendAtStart = NoMsg
    /\ sentCount[1] = 1
    /\ msg_vel_set = NoMsg
    /\ msp_set_motor = MotorOf(lastRecv.vx, lastRecv.vy, lastRecv.vr)
    /\ msp_set_motor # <<DSHOT_NEUTRAL, DSHOT_NEUTRAL, DSHOT_NEUTRAL, DSHOT_NEUTRAL>>
    /\ Len(TxFrames(tickLog)) = 2

\* the Twist fields of a command (vx, vy, vr) with the other axes zero
AsTwist(vx, vy, vr) == <<vx, vy, 0, 0, 0, vr>>

\* the echo is the last entry of the log and the only echo of the tick, and
\* the set-motor frame is the entry before it
EchoedOnceAfterTx ==
    /\ Len(tickLog) >= 2
    /\ IsEchoPub(tickLog[Len(tickLog)])
    /\ IsSetMotorTx(tickLog[Len(tickLog) - 1])
    /\ Count(tickLog, IsEchoPub) = 1

\* C6 as claimed: the command echoed after the transmission is the consumed
\* command verbatim, vx, vy and vr as they were received, also when they lie
\* outside [-1, 1]; it is published once, after the set-motor frame.
C6_EchoVerbatim ==
    pc = "clear" =>
        /\ EchoedOnceAfterTx
        /\ tickLog[Len(tickLog)].data = AsTwist(lastRecv.vx, lastRecv.vy, lastRecv.vr)

\* C6 amended: the command echoed after the transmission carries vx, vy and
\* vr each clamped to [-1, 1] (set_motors clamps the message in place), so it
\* equals the received command exactly when that lies in range; it is
\* published once, after the set-motor frame.
C6_EchoClamped ==
    pc = "clear" =>
        /\ EchoedOnceAfterTx
        /\ tickLog[Len(tickLog)].data =
              AsTwist(clamp(lastRecv.vx, -1 * Scale, 1 * Scale),
                      clamp(lastRecv.vy, -1 * Scale, 1 * Scale),
                      clamp(lastRecv.vr, -1 * Scale, 1 * Scale))
        /\ ~LastRecvOutOfRange =>
              tickLog[Len(tickLog)].data = AsTwist(lastRecv.vx, lastRecv.vy, lastRecv.vr)

\* C6 witness: the echo of a command with a component outside [-1, 1] has
\* been published and differs from the command received
C6_Witness ==
    /\ pc = "clear"
    /\ LastRecvOutOfRange
    /\ IsEchoPub(tickLog[Len(tickLog)])
    /\ tickLog[Len(tickLog)].data # AsTwist(lastRecv.vx, lastRecv.vy, lastRecv.vr)

\* C7 (state part): the first frame ever transmitted is the neutral set-motor
\* frame, sent by serial_init before the subscription and the timer exist,
\* hence before any tick, query or command intake; once the transport is
\* released the last frame transmitted is the neutral set-motor frame the
\* destructor sent.
C7_StartStopState ==
    /\ NeutralFrame = Encode(MSP_CMD_SET_MOTOR, MotorPayload(MotorOf(0, 0, 0)))
    /\ wireFirst # NoFrame => wireFirst = [bytes |-> NeutralFrame, by |-> "init"]
    /\ (vel_set \/ timer \/ ticks > 0 \/ nextId > 1 \/ tickLog # << >>) =>
          wireFirst = [bytes |-> NeutralFrame, by |-> "init"]
    /\ wireFirst = NoFrame <=> wireLast = NoFrame
    /\ serial_fd = "closed" => wireLast = [bytes |-> NeutralFrame, by |-> "dtor"]
    /\ pc = "exited" => serial_fd = "closed"

\* C7 (step part): nothing is transmitted once the transport is released
C7_SilentAfterClose ==
    serial_fd = "closed" =>
        (wireLast' = wireLast /\ wireFirst' = wireFirst /\ tickLog' = tickLog)

\* C7: startup and shutdown ordering: the first frame ever transmitted is the
\* neutral set-motor frame [1500,1500,1500,1500], sent before the first tick,
\* any query and any command intake; on shutdown the neutral set-motor frame
\* is the last frame, sent before the transport is released, and nothing is
\* transmitted after the release.
C7_StartStopOrder == [](C7_StartStopState) /\ [][C7_SilentAfterClose]_vars

\* C7 witness: the driver started, transmitted a command in a tick, and shut
\* down: the transport is released and the neutral frame was the last one
C7_Witness ==
    /\ serial_fd = "closed"
    /\ ticks > 0
    /\ \E i \in 1..MaxCmds : sentCount[i] = 1
    /\ wireFirst.by = "init"
    /\ wireLast.by = "dtor"

\* the step that follows a publish step
AfterPublish(step) == IF step = "echo" THEN "clear" ELSE "serial_in"

\* C8 as claimed: a publish that fails is isolated to its message: the tick
\* goes on with the step that follows the publish (and so clears the pending
\* command and sends both queries), and the scheduler keeps running.
C8_PublishFailureIsolated ==
    [][(pc \in PublishSteps => pc' \in {pc, AfterPublish(pc)})]_vars

\* C9: when opening the transport fails, initialization aborts: no frame is
\* transmitted, no subscription and no timer exist, no tick runs, and the
\* process does nothing further.
C9_OpenFailureAborts ==
    serial_fd = "invalid" =>
        /\ pc = "open_failed"
        /\ wireFirst = NoFrame /\ wireLast = NoFrame
        /\ ~vel_set /\ ~timer
        /\ ticks = 0 /\ tickLog = << >>
        /\ nextId = 1 /\ msg_vel_set = NoMsg
        /\ msp_set_motor = <<0, 0, 0, 0>>

\* C9 witness: serial::open has failed and the constructor has thrown
C9_Witness == serial_fd = "invalid" /\ pc = "open_failed"

\* C10: codec round trip: a known opcode and a payload are encoded and the
\* bytes fed one at a time to a receiver in its initial state; recv returns
\* false for every byte but the last and true for the last, and then the
\* frame matches the opcode and the payload retrieved is the one encoded.
C10_RoundTrip ==
    pc = "codec" =>
        LET frame == Encode(probe.op, probe.payload)
            fed == Len(frame) - Len(rxbuf)
        IN  /\ Len(probe.rets) = fed
            /\ \A n \in 1..fed : probe.rets[n] = (n = Len(frame))
            /\ rxbuf = << >> =>
                  /\ receiver.ok
                  /\ Match(receiver, probe.op)
                  /\ \A op \in KnownOps \ {probe.op} : ~Match(receiver, op)
                  /\ Data(receiver) = probe.payload

\* C10 witness: a set-motor frame whose payload is the two sync bytes has
\* been fed whole and the receiver reports it
C10_Witness ==
    /\ pc = "codec"
    /\ rxbuf = << >>
    /\ probe.op = MSP_CMD_SET_MOTOR
    /\ probe.payload = <<SYNC1, SYNC2>>
    /\ Len(probe.rets) = 7
    /\ probe.rets[7]
    /\ Data(receiver) = <<SYNC1, SYNC2>>

\* the handler serial_in runs for a complete frame with opcode op
HandlerOf(op) ==
    IF op = MSP_QRY_RAW_IMU THEN "update_imu"
    ELSE IF op = MSP_QRY_ATTITUDE THEN "update_att"
    ELSE "serial_in"

\* C11: a frame with one payload byte altered and its checksum left alone is
\* fed byte by byte: recv never returns true for it and no telemetry handler
\* runs for it; the valid frame fed right after it is recognised on its last
\* byte (and on no earlier one), its payload is delivered intact and its
\* handler runs.
C11_CorruptDropped ==
    pc = "codec_bad" =>
        LET frame == Encode(probe.op, probe.payload)
            total == Len(probe.bad) + Len(frame)
            fed == total - Len(rxbuf)
        IN  /\ Len(probe.rets) = fed /\ Len(probe.disp) = fed
            /\ \A n \in 1..fed :
                  /\ n <= Len(probe.bad) =>
                        (~probe.rets[n] /\ probe.disp[n] = "serial_in")
                  /\ probe.rets[n] = (n = total)
                  /\ n < total => probe.disp[n] = "serial_in"
            /\ fed = Len(probe.bad) => receiver.st = "sync1"
            /\ rxbuf = << >> =>
                  /\ receiver.ok
                  /\ Match(receiver, probe.op)
                  /\ Data(receiver) = probe.payload
                  /\ probe.disp[total] = HandlerOf(probe.op)

\* C11 witness: a raw-inertial frame whose first payload byte was turned into
\* a sync byte has been dropped, and the attitude frame behind it decoded
C11_Witness ==
    /\ pc = "codec_bad"
    /\ rxbuf = << >>
    /\ probe.bad = Corrupt(ImuSample, 5, SYNC1)
    /\ probe.op = MSP_QRY_ATTITUDE
    /\ \A n \in 1..Len(probe.bad) : ~probe.rets[n]
    /\ receiver.ok
    /\ AttitudeOf(Data(receiver)) = <<3, -2, 90>>

\* set_motors has computed the wheel speeds of the command in probe
Mixed == pc \in {"mix_encode", "mix_done"}

\* every component of command c lies in [-1, 1]
InRange(c) == \A j \in 1..3 : Abs(c[j]) <= Scale

\* C12: for a pure rotation (0, 0, r), r in [-1, 1] and not 0, the mixer
\* applies no rescaling and every wheel speed is r times the wheel's entry in
\* the third column of the layout, so all four have magnitude |r|.
C12_PureRotation ==
    (Mixed /\ probe.cmd[1] = 0 /\ probe.cmd[2] = 0 /\ probe.cmd[3] # 0
           /\ InRange(probe.cmd)) =>
        /\ PeakRaw(probe.v) <= comb_limit * Scale
        /\ probe.w.den = Scale
        /\ \A i \in 1..4 :
              /\ probe.w.num[i] * Scale = probe.cmd[3] * V[i][3] * probe.w.den
              /\ Abs(probe.w.num[i]) * Scale = Abs(probe.cmd[3]) * probe.w.den

\* C12 witness: the rotation r = -1 has been mixed and encoded: the wheels
\* of the first two rows run forward, the other two backward, all at 50
C12_Witness ==
    /\ pc = "mix_done"
    /\ probe.cmd = <<0, 0, -Scale>>
    /\ probe.w.num = <<Scale, Scale, -Scale, -Scale>>
    /\ probe.motor = <<1550, 1550, 1450, 1450>>

\* C13: when the raw peak wheel magnitude of a command exceeds 2.0, every
\* wheel that attains the peak is encoded to exactly 1600 (forward) or exactly
\* 1400 (backward), and all four encoded values lie in [1400, 1600].
C13_SaturatedPeakAtExtreme ==
    /\ pc # "aborted"
    /\ (pc = "mix_done" /\ PeakRaw(probe.v) > comb_limit * Scale) =>
          /\ SanityOk(probe.motor)
          /\ \A i \in 1..4 :
                Abs(probe.v[i]) = PeakRaw(probe.v) =>
                    probe.motor[i] = (IF probe.v[i] > 0 THEN ENVELOPE_HI ELSE ENVELOPE_LO)
          /\ \E i \in 1..4 : probe.motor[i] \in {ENVELOPE_LO, ENVELOPE_HI}

\* C13 witness: (1, 1, 1) has raw wheels (-1, 1, 3, 1); the third wheel sits
\* on the upper extreme and the others are scaled by 2/3
C13_Witness ==
    /\ pc = "mix_done"
    /\ probe.cmd = <<Scale, Scale, Scale>>
    /\ PeakRaw(probe.v) = 3 * Scale
    /\ probe.motor = <<1467, 1533, 1600, 1533>>

\* the wheel speeds the mixer produces for command c (lines 56-70)
MixOf(c) == Throttle(WheelRaw(ClampCmd(c[1], c[2], c[3])))

\* the constants k = k[1] / k[2] with 0 < k <= 1 offered to the mixer
Ratios == {k \in (1..MaxDen) \X (1..MaxDen) : k[1] <= k[2]}

\* k times command c lies on the grid
OnGrid(c, k) == \A j \in 1..3 : (k[1] * c[j]) % k[2] = 0

\* command c scaled by k
ScaledCmd(c, k) == [j \in 1..3 |-> (k[1] * c[j]) \div k[2]]

\* each wheel speed for k * c is k times the wheel speed w computed for c
LinearAt(c, w, k) ==
    LET b == MixOf(ScaledCmd(c, k))
    IN  \A i \in 1..4 : b.num[i] * w.den * k[2] = k[1] * w.num[i] * b.den

\* C14 as claimed: for every command with components in [-1, 1] and every
\* constant k with 0 < k <= 1, each wheel speed for the command scaled by k
\* is k times the wheel speed for the command.
C14_LinearAllInputs ==
    (Mixed /\ InRange(probe.cmd)) =>
        \A k \in Ratios : OnGrid(probe.cmd, k) => LinearAt(probe.cmd, probe.w, k)

\* C14 amended: the scaling law holds for the commands whose raw peak wheel
\* magnitude is at most 2.0 (no rescaling applied); for a command that is
\* rescaled and a constant k < 1 it fails.
C14_LinearBelowSaturation ==
    (Mixed /\ InRange(probe.cmd)) =>
        \A k \in Ratios :
            OnGrid(probe.cmd, k) =>
                /\ PeakRaw(probe.v) <= comb_limit * Scale =>
                      LinearAt(probe.cmd, probe.w, k)
                /\ (PeakRaw(probe.v) > comb_limit * Scale /\ k[1] < k[2]) =>
                      ~LinearAt(probe.cmd, probe.w, k)

\* C14 witness: (1, 1, 0) has raw peak exactly 2.0 and was mixed without
\* rescaling; a constant below 1 keeps it on the grid
C14_Witness ==
    /\ pc = "mix_done"
    /\ probe.cmd = <<Scale, Scale, 0>>
    /\ PeakRaw(probe.v) = comb_limit * Scale
    /\ probe.w.den = Scale
    /\ \E k \in Ratios : k[1] < k[2] /\ OnGrid(probe.cmd, k)

\* C15 as claimed: the pure-forward command (1, 0, 0) is mixed without
\* saturation and encoded to [1550, 1550, 1450, 1450].
C15_ForwardAsClaimed ==
    (pc = "mix_done" /\ probe.cmd = <<Scale, 0, 0>>) =>
        /\ PeakRaw(probe.v) <= comb_limit * Scale
        /\ probe.motor = <<1550, 1550, 1450, 1450>>

\* C15 amended: the pure-forward command (1, 0, 0) is mixed without
\* saturation (scaled amplitude 0.5) and encoded to [1550, 1550, 1550, 1550]:
\* the first column of the layout is 1 for every wheel.
C15_ForwardEncoding ==
    (pc = "mix_done" /\ probe.cmd = <<Scale, 0, 0>>) =>
        /\ PeakRaw(probe.v) = Scale
        /\ PeakRaw(probe.v) <= comb_limit * Scale
        /\ probe.w = [num |-> [i \in 1..4 |-> Scale], den |-> Scale]
        /\ probe.motor = <<1550, 1550, 1550, 1550>>
        /\ wireLast.bytes = Encode(MSP_CMD_SET_MOTOR, MotorPayload(probe.motor))

\* C15 witness: set_motors has run on (1, 0, 0) and transmitted its frame
C15_Witness ==
    /\ pc = "mix_done"
    /\ probe.cmd = <<Scale, 0, 0>>
    /\ wireLast.by = "mix"
    /\ \A i \in 1..4 : msp_set_motor[i] = DSHOT_NEUTRAL + max_velocity

\* the motor command of (vx, vy, vr) with each component clamped to [-1, 1]
MotorOfClamped(vx, vy, vr) ==
    MotorOf(clamp(vx, -1 * Scale, 1 * Scale),
            clamp(vy, -1 * Scale, 1 * Scale),
            clamp(vr, -1 * Scale, 1 * Scale))

\* C16: an out-of-range command is clamped, never rejected: the motor command
\* transmitted for (vx, vy, vr) is the one of (clamp(vx), clamp(vy),
\* clamp(vr)), and set_motors raises no assertion failure.  The first conjunct
\* evaluates set_motors on the whole grid MixVals.
C16_SilentClamp ==
    /\ pc = "start" =>
          \A x \in MixVals : \A y \in MixVals : \A r \in MixVals :
              /\ MotorOf(x, y, r) = MotorOfClamped(x, y, r)
              /\ SanityOk(MotorOf(x, y, r))
    /\ pc # "aborted"
    /\ pc = "echo" =>
          /\ msp_set_motor = MotorOfClamped(lastRecv.vx, lastRecv.vy, lastRecv.vr)
          /\ wireLast =
                [bytes |-> Encode(MSP_CMD_SET_MOTOR, MotorPayload(msp_set_motor)),
                 by |-> "tick"]

\* C16 witness: (2, -2, 2) was received and a tick transmitted the motor
\* command of (1, -1, 1)
C16_Witness ==
    /\ pc = "echo"
    /\ lastRecv.vx = 2 * Scale /\ lastRecv.vy = -2 * Scale /\ lastRecv.vr = 2 * Scale
    /\ msp_set_motor = MotorOf(Scale, -Scale, Scale)
    /\ MotorsIn(FramePayload(wireLast.bytes)) = MotorOf(Scale, -Scale, Scale)

\* C20: saturation is proportional and makes the encoder's clamp a no-op: the
\* wheel speeds leaving the mixer are the raw dot products divided by one
\* common positive factor (1 when the raw peak is at most 2, raw peak / 2
\* otherwise), every wheel speed has magnitude at most 2, and
\* round(1500 + 50 * w) lies in [1400, 1600] before the clamp, which changes
\* no value.
C20_ProportionalNoClamp ==
    /\ Mixed =>
          /\ probe.w.den > 0
          /\ \A i \in 1..4 :
                /\ PeakRaw(probe.v) <= comb_limit * Scale =>
                      probe.w.num[i] * Scale = probe.v[i] * probe.w.den
                /\ PeakRaw(probe.v) > comb_limit * Scale =>
                      probe.w.num[i] * PeakRaw(probe.v) =
                          comb_limit * probe.v[i] * probe.w.den
                /\ Abs(probe.w.num[i]) <= comb_limit * probe.w.den
    /\ pc = "mix_done" =>
          \A i \in 1..4 :
              /\ probe.cmd_vel[i] >= ENVELOPE_LO
              /\ probe.cmd_vel[i] <= ENVELOPE_HI
              /\ probe.motor[i] = probe.cmd_vel[i]

\* C20 witness: (1, -1, 1) has raw wheels (1, -1, 1, 3) and was divided by
\* 3/2; the fourth wheel is 1600 before and after the clamp
C20_Witness ==
    /\ pc = "mix_done"
    /\ probe.cmd = <<Scale, -Scale, Scale>>
    /\ probe.v = <<Scale, -Scale, Scale, 3 * Scale>>
    /\ probe.cmd_vel[4] = ENVELOPE_HI
    /\ probe.motor[4] = ENVELOPE_HI

\* a log entry is a byte on which recv returned true for a frame with opcode op
IsRxDone(e, op) == e.k = "rx" /\ e.ret /\ e.op = op

IsImuPub(e) == IsPub(e, "base/imu/acc")
IsAttPub(e) == IsPub(e, "base/imu/att")
IsImuRxDone(e) == IsRxDone(e, MSP_QRY_RAW_IMU)
IsAttRxDone(e) == IsRxDone(e, MSP_QRY_ATTITUDE)

\* the telemetry publications a log holds, in order
TelemetryPubs(log) == SelectSeq(log, IsTelemetryPub)

\* the record published for a telemetry frame as it travelled on the wire
RecordOf(f) ==
    IF FrameOp(f) = MSP_QRY_RAW_IMU
    THEN PubEvent("base/imu/acc", RawImuOf(FramePayload(f)))
    ELSE PubEvent("base/imu/att", <<0, 0, 0>> \o AttitudeOf(FramePayload(f)))

\* an intact telemetry frame
IsTelemetryFrame(f) == f \in {ImuSample, AttSample}

RECURSIVE RecordsOf(_)
\* the records due for a sequence of frames: one per intact telemetry frame
RecordsOf(fs) ==
    IF fs = << >> THEN << >>
    ELSE (IF IsTelemetryFrame(Head(fs)) THEN <<RecordOf(Head(fs))>> ELSE << >>)
             \o RecordsOf(Tail(fs))

\* the callback is past the drain, or has returned
DrainOver == pc \in {"so_check", "qry_imu", "qry_att", "idle"} /\ ticks > 0

\* C17: every completed telemetry frame is published at once, before the
\* next byte is fed: in a tick's log the byte that completes a raw-inertial
\* frame is followed directly by one publication on the inertial channel, the
\* byte that completes an attitude frame by one on the attitude channel, and
\* no other byte (one that completes no frame, or a frame with another
\* opcode) by any; so a drain in which n telemetry frames complete publishes
\* their n records, in order.
C17_DispatchOnCompletion ==
    /\ \A n \in 1..Len(tickLog) :
          /\ IsImuPub(tickLog[n]) => (n > 1 /\ IsImuRxDone(tickLog[n - 1]))
          /\ IsAttPub(tickLog[n]) => (n > 1 /\ IsAttRxDone(tickLog[n - 1]))
          /\ (IsImuRxDone(tickLog[n]) /\ n < Len(tickLog)) => IsImuPub(tickLog[n + 1])
          /\ (IsAttRxDone(tickLog[n]) /\ n < Len(tickLog)) => IsAttPub(tickLog[n + 1])
          /\ (IsImuRxDone(tickLog[n]) /\ n = Len(tickLog)) =>
                pc \in {"update_imu", "crashed"}
          /\ (IsAttRxDone(tickLog[n]) /\ n = Len(tickLog)) =>
                pc \in {"update_att", "crashed"}
    /\ pc = "update_imu" => IsImuRxDone(tickLog[Len(tickLog)])
    /\ pc = "update_att" => IsAttRxDone(tickLog[Len(tickLog)])
    /\ DrainOver =>
          /\ Count(tickLog, IsImuPub) = Count(tickLog, IsImuRxDone)
          /\ Count(tickLog, IsAttPub) = Count(tickLog, IsAttRxDone)
    /\ (DrainOver /\ ticks = 1) => TelemetryPubs(tickLog) = RecordsOf(probe.stream)
    /\ (DrainOver /\ ticks > 1) => TelemetryPubs(tickLog) = << >>

\* C17 witness: two raw-inertial frames waited at the transport and one tick
\* published two records on the inertial channel and none on the other
C17_Witness ==
    /\ pc = "idle"
    /\ ticks = 1
    /\ probe.stream = <<ImuSample, ImuSample>>
    /\ Count(tickLog, IsImuPub) = 2
    /\ Count(tickLog, IsAttPub) = 0

\* C17 witness, second case: a frame with another opcode and an attitude
\* frame; only the attitude record was published
C17_WitnessOther ==
    /\ pc = "idle"
    /\ ticks = 1
    /\ probe.stream = <<OtherSample, AttSample>>
    /\ Len(TelemetryPubs(tickLog)) = 1

\* the bytes of the frame the receiver is assembling, as far as it has them
Reassemble(r) ==
    CASE r.st = "sync1" -> << >>
      [] r.st = "sync2" -> <<SYNC1>>
      [] r.st = "len" -> <<SYNC1, SYNC2>>
      [] r.st = "op" -> <<SYNC1, SYNC2, r.len>>
      [] OTHER -> <<SYNC1, SYNC2, r.len, r.op>> \o r.buf

RECURSIVE WholeFrames(_)
\* bs is a run of complete frames of the motor controller, back to back
WholeFrames(bs) ==
    \/ bs = << >>
    \/ \E f \in DevFrames :
          /\ Len(f) <= Len(bs)
          /\ SubSeq(bs, 1, Len(f)) = f
          /\ WholeFrames(SubSeq(bs, Len(f) + 1, Len(bs)))

\* rx entries of a log
IsRx(e) == e.k = "rx"

\* C18: the receiver keeps its state from one tick to the next: what it has
\* assembled, followed by the bytes not read yet, is always a run of whole
\* frames, whatever was transmitted in between; recv returns true exactly on
\* the byte that ends a frame, in whichever tick that byte is drained, and
\* the frame is published then, once: a publication follows a byte on which
\* recv returned true, and carries the record of the frame just completed.
C18_ReceiverPersists ==
    /\ (serial_fd = "open" /\ pc \notin {"start", "opened"}) =>
          WholeFrames(Reassemble(receiver) \o rxbuf \o devOut)
    /\ (pc \in TickSteps /\ tickLog # << >> /\ IsRx(tickLog[Len(tickLog)])) =>
          /\ tickLog[Len(tickLog)].ret = (receiver.st = "sync1")
          /\ tickLog[Len(tickLog)].ret = receiver.ok
          /\ receiver.ok => Encode(receiver.cmd, receiver.data) \in DevFrames
    /\ \A n \in 1..Len(tickLog) :
          IsTelemetryPub(tickLog[n]) =>
              /\ n > 1
              /\ IsRx(tickLog[n - 1]) /\ tickLog[n - 1].ret
    /\ (tickLog # << >> /\ IsTelemetryPub(tickLog[Len(tickLog)])
            /\ pc \in {"serial_in", "so_check"}) =>
          tickLog[Len(tickLog)] = RecordOf(Encode(receiver.cmd, receiver.data))
    /\ DrainOver =>
          Len(TelemetryPubs(tickLog)) =
              Count(tickLog, IsImuRxDone) + Count(tickLog, IsAttRxDone)

\* C18 witness: the first five bytes of a raw-inertial frame were drained by
\* the first tick, which also transmitted a command and the queries; the rest
\* arrived later and the second tick drained it and published the record
C18_Witness ==
    /\ TickComplete
    /\ ticks = 2
    /\ pendAtStart = NoMsg
    /\ sentCount[1] = 1
    /\ Count(tickLog, IsRx) = Len(ImuSample) - 5
    /\ TelemetryPubs(tickLog) = <<RecordOf(ImuSample)>>

\* the ids of the commands received so far
Received == 1..(nextId - 1)

\* C19 (state part): every command received so far has been transmitted, or
\* was overwritten by a later one, or is still pending; a tick that found a
\* command pending has transmitted it once it is past set_motors.
C19_NotLostState ==
    /\ \A i \in Received :
          sentCount[i] = 1 \/ i < lastRecv.id \/ msg_vel_set = i
    /\ (pc \in {"qry_imu", "qry_att"} /\ lastRecv.id # NoMsg
            /\ sentCount[lastRecv.id] = 0) =>
          msg_vel_set = lastRecv.id
    /\ (pendAtStart # NoMsg /\ (pc \in {"echo", "clear", "qry_imu", "qry_att"}
                                   \/ TickComplete)) =>
          sentCount[pendAtStart] = 1

\* C19 (progress part): while a further tick is still to come, a pending
\* command is eventually transmitted or overwritten by a later command
C19_Transmitted ==
    \A i \in 1..MaxCmds :
        (msg_vel_set = i /\ ticks < MaxTicks) ~> (sentCount[i] = 1 \/ lastRecv.id > i)

\* C19: no received command is lost by the clear step: under every
\* interleaving of command intake and tick each received command is
\* transmitted by a tick or overwritten by a later command; a command the
\* tick did not transmit is still pending after the clear; and, ticks firing
\* on, a command that is not overwritten is transmitted by the next tick.
C19_NoCommandLost == [](C19_NotLostState) /\ C19_Transmitted

\* C19 witness: the first command was transmitted and cleared by the first
\* tick, the second arrived afterwards and was transmitted by the second tick
C19_Witness ==
    /\ TickComplete
    /\ ticks = 2
    /\ lastRecv.id = 2
    /\ pendAtStart = 2
    /\ sentCount = [i \in 1..MaxCmds |-> IF i <= 2 THEN 1 ELSE 0]
    /\ msg_vel_set = NoMsg

====
